---- MODULE Spec2Model ----
(***************************************************************************)
(* Model of the LD19 lidar stream decoder (src/src/ld19codec.rs) and of    *)
(* the byte transport that feeds it (src/src/main.rs).                     *)
(*                                                                         *)
(* Bytes are integers 0..255.  Sequences are 1-based in TLA+, while the    *)
(* code's positions are 0-based: a position p of the code is element p+1   *)
(* of the sequence.  Every operator that takes or returns a position uses  *)
(* the code's 0-based convention.                                          *)
(***************************************************************************)
EXTENDS Integers, Sequences, FiniteSets, TLC

\* ------------------------------------------------------------------------
\* Bounds of the model
\* ------------------------------------------------------------------------

\* number of chunks the transport delivers in one behaviour
MaxChunks == 4

\* number of bytes delivered after a corrupted packet
MaxTail == 2

\* length of the longest byte span handed to crc8 on its own
MaxSpan == 4

\* number of pieces of a stream that two reader loops receive
MaxPieces == 3

\* number of calls of next on an iterator after its twelfth
MaxExtra == 2

\* number of worker tasks the UI spawns
MaxWorkers == 2

\* number of frames a worker task sends
MaxFrames == 2

\* ------------------------------------------------------------------------
\* Program constants
\* ------------------------------------------------------------------------

\* size_of::<Ld19Packet>() of the packed struct: 1+1+2+2+12*3+2+2+1
PKG_SIZE == 47

\* the start byte searched by decode (0x54)
START_BYTE == 84

\* offset_of!(Ld19Packet, crc8)
CRC8_OFFSET == 46

\* number of points of a packet: [Ld19Point; 12]
POINTS == 12

\* mutant: entry 164 repeats entry 165, the table is no longer a permutation
CRC_TABLE_dup ==
    << 0, 77, 154, 215, 121, 52, 227, 174, 242, 191, 104, 37, 139, 198, 17, 92,
       169, 228, 51, 126, 208, 157, 74, 7, 91, 22, 193, 140, 34, 111, 184, 245,
       31, 82, 133, 200, 102, 43, 252, 177, 237, 160, 119, 58, 148, 217, 14, 67,
       182, 251, 44, 97, 207, 130, 85, 24, 68, 9, 222, 147, 61, 112, 167, 234,
       62, 115, 164, 233, 71, 10, 221, 144, 204, 129, 86, 27, 181, 248, 47, 98,
       151, 218, 13, 64, 238, 163, 116, 57, 101, 40, 255, 178, 28, 81, 134, 203,
       33, 108, 187, 246, 88, 21, 194, 143, 211, 158, 73, 4, 170, 231, 48, 125,
       136, 197, 18, 95, 241, 188, 107, 38, 122, 55, 224, 173, 3, 78, 153, 212,
       124, 49, 230, 171, 5, 72, 159, 210, 142, 195, 20, 89, 247, 186, 109, 32,
       213, 152, 79, 2, 172, 225, 54, 123, 39, 106, 189, 240, 94, 19, 196, 137,
       99, 46, 249, 180, 87, 87, 128, 205, 145, 220, 11, 70, 232, 165, 114, 63,
       202, 135, 80, 29, 179, 254, 41, 100, 56, 117, 162, 239, 65, 12, 219, 150,
       66, 15, 216, 149, 59, 118, 161, 236, 176, 253, 42, 103, 201, 132, 83, 30,
       235, 166, 113, 60, 146, 223, 8, 69, 25, 84, 131, 206, 96, 45, 250, 183,
       93, 16, 199, 138, 36, 105, 190, 243, 175, 226, 53, 120, 214, 155, 76, 1,
       244, 185, 110, 35, 141, 192, 23, 90, 6, 75, 156, 209, 127, 50, 229, 168 >>

CRC_TABLE ==
    << 0, 77, 154, 215, 121, 52, 227, 174, 242, 191, 104, 37, 139, 198, 17, 92,
       169, 228, 51, 126, 208, 157, 74, 7, 91, 22, 193, 140, 34, 111, 184, 245,
       31, 82, 133, 200, 102, 43, 252, 177, 237, 160, 119, 58, 148, 217, 14, 67,
       182, 251, 44, 97, 207, 130, 85, 24, 68, 9, 222, 147, 61, 112, 167, 234,
       62, 115, 164, 233, 71, 10, 221, 144, 204, 129, 86, 27, 181, 248, 47, 98,
       151, 218, 13, 64, 238, 163, 116, 57, 101, 40, 255, 178, 28, 81, 134, 203,
       33, 108, 187, 246, 88, 21, 194, 143, 211, 158, 73, 4, 170, 231, 48, 125,
       136, 197, 18, 95, 241, 188, 107, 38, 122, 55, 224, 173, 3, 78, 153, 212,
       124, 49, 230, 171, 5, 72, 159, 210, 142, 195, 20, 89, 247, 186, 109, 32,
       213, 152, 79, 2, 172, 225, 54, 123, 39, 106, 189, 240, 94, 19, 196, 137,
       99, 46, 249, 180, 26, 87, 128, 205, 145, 220, 11, 70, 232, 165, 114, 63,
       202, 135, 80, 29, 179, 254, 41, 100, 56, 117, 162, 239, 65, 12, 219, 150,
       66, 15, 216, 149, 59, 118, 161, 236, 176, 253, 42, 103, 201, 132, 83, 30,
       235, 166, 113, 60, 146, 223, 8, 69, 25, 84, 131, 206, 96, 45, 250, 183,
       93, 16, 199, 138, 36, 105, 190, 243, 175, 226, 53, 120, 214, 155, 76, 1,
       244, 185, 110, 35, 141, 192, 23, 90, 6, 75, 156, 209, 127, 50, 229, 168 >>

\* ------------------------------------------------------------------------
\* Integrity checker
\* ------------------------------------------------------------------------

\* bit k (of weight w = 2^k) of a u8 value
bit(a, w) == (a \div w) % 2

\* bitwise exclusive or of two u8 values: crc ^ *byte
xor(a, b) ==
      ((bit(a, 1) + bit(b, 1)) % 2)
    + ((bit(a, 2) + bit(b, 2)) % 2) * 2
    + ((bit(a, 4) + bit(b, 4)) % 2) * 4
    + ((bit(a, 8) + bit(b, 8)) % 2) * 8
    + ((bit(a, 16) + bit(b, 16)) % 2) * 16
    + ((bit(a, 32) + bit(b, 32)) % 2) * 32
    + ((bit(a, 64) + bit(b, 64)) % 2) * 64
    + ((bit(a, 128) + bit(b, 128)) % 2) * 128

\* xor tabulated over all pairs of u8 values
XOR_TABLE == [a \in 0..255 |-> [b \in 0..255 |-> xor(a, b)]]

\* mutant: the accumulator starts at 0xFF
crc8_ff(data) ==
    LET loop[i \in 0..Len(data), acc \in 0..255] ==
            IF i = Len(data) THEN acc
            ELSE loop[i + 1, CRC_TABLE[XOR_TABLE[acc][data[i + 1]] + 1]]
    IN  loop[0, 255]

\* crc8: loop[i, crc] runs the for loop from byte i on with accumulator crc
crc8(data) ==
    LET loop[i \in 0..Len(data), crc \in 0..255] ==
            IF i = Len(data) THEN crc
            ELSE loop[i + 1, CRC_TABLE[XOR_TABLE[crc][data[i + 1]] + 1]]
    IN  loop[0, 0]

\* ------------------------------------------------------------------------
\* Packet layout decoder: a cursor over `data` starting at position 0
\* ------------------------------------------------------------------------

\* cursor.read_u8() at cursor position off
read_u8(data, off) == data[off + 1]

\* cursor.read_u16::<LittleEndian>() at cursor position off
read_u16(data, off) == data[off + 1] + 256 * data[off + 2]

\* Ld19Point::from_bytes with the cursor at position off
Ld19Point_from_bytes(data, off) ==
    [distance |-> read_u16(data, off), intensity |-> read_u8(data, off + 2)]

\* Ld19Packet::from_bytes: the cursor starts at position 0 of data
Ld19Packet_from_bytes(data) ==
    [header      |-> read_u8(data, 0),
     ver_len     |-> read_u8(data, 1),
     speed       |-> read_u16(data, 2),
     start_angle |-> read_u16(data, 4),
     point       |-> [i \in 1..POINTS |-> Ld19Point_from_bytes(data, 6 + 3 * (i - 1))],
     end_angle   |-> read_u16(data, 42),
     timestamp   |-> read_u16(data, 44),
     crc8        |-> read_u8(data, 46)]

\* ------------------------------------------------------------------------
\* Single-precision arithmetic of the angle accessors
\* ------------------------------------------------------------------------
\* A non-negative f32 value is the record [m, e] standing for m * 2^e, with
\* 2^23 <= m < 2^24, or m = 0 and e = 0 for zero.  Every operation returns
\* the exact result rounded to the nearest such value, ties to the even
\* mantissa, as the f32 operations of the code do.  The values met here lie
\* between 2^-30 and 2^10, so no result is subnormal or infinite.

F32_ZERO == [m |-> 0, e |-> 0]

\* the number of binary digits of n, for 0 <= n < 2^30
bitlen(n) == CHOOSE k \in 0..30 : n < 2^k /\ (k = 0 \/ n >= 2^(k - 1))

\* the f32 nearest to (P + t) * 2^e, where 0 <= P < 2^30 and 0 < t < 1 if
\* sticky and t = 0 otherwise; P has at least 25 digits when sticky
f32_round(P, e, sticky) ==
    IF P = 0 THEN F32_ZERO
    ELSE LET n == bitlen(P) IN
         IF n <= 24 THEN [m |-> P * 2^(24 - n), e |-> e - (24 - n)]
         ELSE LET k == n - 24
                  q == P \div 2^k
                  r == P % 2^k
                  half == 2^(k - 1)
                  up == r > half \/ (r = half /\ (sticky \/ q % 2 = 1))
                  q1 == IF up THEN q + 1 ELSE q
              IN  IF q1 = 2^24 THEN [m |-> 2^23, e |-> e + k + 1]
                  ELSE [m |-> q1, e |-> e + k]

\* a < b
f32_lt(a, b) ==
    /\ b.m # 0
    /\ \/ a.m = 0
       \/ a.e < b.e
       \/ a.e = b.e /\ a.m < b.m

\* the mantissa of lo on the scale of 8 * hi.m, cut to an integer
f32_shifted(hi, lo) ==
    LET d == hi.e - lo.e IN
    IF d <= 3 THEN lo.m * 2^(3 - d)
    ELSE IF d >= 30 THEN 0
    ELSE lo.m \div 2^(d - 3)

\* digits of lo were cut off by f32_shifted
f32_cut(hi, lo) ==
    LET d == hi.e - lo.e IN
    IF d <= 3 THEN FALSE
    ELSE IF d >= 30 THEN TRUE
    ELSE lo.m % 2^(d - 3) # 0

\* a + b
f32_add(a, b) ==
    LET hi == IF f32_lt(a, b) THEN b ELSE a
        lo == IF f32_lt(a, b) THEN a ELSE b
    IN  IF lo.m = 0 THEN hi
        ELSE f32_round(8 * hi.m + f32_shifted(hi, lo), hi.e - 3, f32_cut(hi, lo))

\* (a - b).abs(), which is also a - b when a >= b
f32_abs_sub(a, b) ==
    LET hi == IF f32_lt(a, b) THEN b ELSE a
        lo == IF f32_lt(a, b) THEN a ELSE b
    IN  IF lo.m = 0 THEN hi
        ELSE f32_round(8 * hi.m - f32_shifted(hi, lo)
                           - (IF f32_cut(hi, lo) THEN 1 ELSE 0),
                       hi.e - 3, f32_cut(hi, lo))

\* n as f32 * a, for an integer 0 <= n < 2^16 (n as f32 is exact): the
\* product n * a.m has up to 40 digits and is held as A * 4096 + B
f32_mul_int(n, a) ==
    IF n = 0 \/ a.m = 0 THEN F32_ZERO
    ELSE LET mh == a.m \div 4096
             ml == a.m % 4096
             A == n * mh + ((n * ml) \div 4096)
             B == (n * ml) % 4096
             k == bitlen(A) + 12 - 28
         IN  IF k <= 0 THEN f32_round(A * 4096 + B, a.e, FALSE)
             ELSE IF k <= 12
                  THEN f32_round(A * 2^(12 - k) + (B \div 2^k), a.e + k, B % 2^k # 0)
                  ELSE f32_round(A \div 2^(k - 12), a.e + k,
                                 A % 2^(k - 12) # 0 \/ B # 0)

\* a / n as f32, for an integer 0 < n < 16
f32_div_int(a, n) ==
    IF a.m = 0 THEN F32_ZERO
    ELSE f32_round((a.m * 64) \div n, a.e - 6, (a.m * 64) % n # 0)

\* the literals 360.0, 180.0 and 1e-2 as f32
F32_360 == [m |-> 11796480, e |-> -15]

F32_180 == [m |-> 11796480, e |-> -16]

F32_1E_2 == [m |-> 10737418, e |-> -30]

\* a % 360.0 for 0 <= a < 2^16: the remainder is exact
f32_rem_360(a) ==
    IF f32_lt(a, F32_360) THEN a
    ELSE f32_round((a.m * 2^(a.e + 15)) % F32_360.m, -15, FALSE)

\* a <= b
f32_le(a, b) == ~f32_lt(b, a)

\* ------------------------------------------------------------------------
\* Packet accessors and the angular interpolator
\* ------------------------------------------------------------------------

\* Ld19Packet::start_angle_deg
start_angle_deg(packet) == f32_mul_int(packet.start_angle, F32_1E_2)

\* Ld19Packet::end_angle_deg
end_angle_deg(packet) == f32_mul_int(packet.end_angle, F32_1E_2)

\* mutant: the longer arc is not replaced by the shorter one
delta_angle_deg_long(packet) ==
    f32_rem_360(f32_abs_sub(end_angle_deg(packet), start_angle_deg(packet)))

\* Ld19Packet::delta_angle_deg
delta_angle_deg(packet) ==
    LET delta == f32_rem_360(f32_abs_sub(end_angle_deg(packet), start_angle_deg(packet)))
    IN  IF f32_lt(F32_180, delta) THEN f32_abs_sub(F32_360, delta) ELSE delta

\* mutant: the iterator starts at the second point
iter_points_second(packet) == [packet |-> packet, index |-> 1]

\* Ld19Packet::iter_points
iter_points(packet) == [packet |-> packet, index |-> 0]

\* mutant: the arc is divided by the number of points
step_len(packet) == f32_div_int(delta_angle_deg(packet), POINTS)

\* "let step" of Ld19PointIter::next
step(packet) == f32_div_int(delta_angle_deg(packet), POINTS - 1)

\* "let angle" of Ld19PointIter::next
angle(it) ==
    f32_rem_360(f32_add(start_angle_deg(it.packet),
                        f32_mul_int(it.index, step(it.packet))))

\* an item of the iterator: Some((angle, p))
SomeItem(a, p) == [kind |-> "Some", angle |-> a, point |-> p]

\* self.packet.point.get(self.index).map(|p| (angle, p))
get_item(it) ==
    IF it.index < POINTS
    THEN SomeItem(angle(it), it.packet.point[it.index + 1])
    ELSE [kind |-> "None"]

\* Ld19PointIter::next: item is the value returned, it the iterator it leaves
next(it) == [item |-> get_item(it), it |-> [it EXCEPT !.index = it.index + 1]]

\* ------------------------------------------------------------------------
\* Stream frame decoder
\* ------------------------------------------------------------------------

\* the log of the decoder: stream positions of the start bytes for which it
\* printed "crc mismatch"
VARIABLE crcAt

\* the values decode returns: Ok(None) and Ok(Some(packet))
None == [kind |-> "None"]

Some(packet) == [kind |-> "Some", packet |-> packet]

\* src.iter().position(|b| *b == 0x54): 0-based position of the first start
\* byte, -1 standing for Option::None
position(src) ==
    IF \E i \in 1..Len(src) : src[i] = START_BYTE
    THEN (CHOOSE i \in 1..Len(src) :
             /\ src[i] = START_BYTE
             /\ \A j \in 1..(i - 1) : src[j] # START_BYTE) - 1
    ELSE -1

\* mutant: the length of the buffer is not checked
EnoughData_any(len, start_pos) == len > start_pos

\* mutant: a buffer ending with the candidate window is enough
EnoughData_ge(len, start_pos) == len - start_pos >= PKG_SIZE

\* "enough data for a full packet?"
EnoughData(len, start_pos) == len - start_pos > PKG_SIZE

\* &src[start_pos..start_pos + PKG_SIZE]
packet_data(src, start_pos) == SubSeq(src, start_pos + 1, start_pos + PKG_SIZE)

\* crc_calculated == crc_indicated
CrcMatches(pd) == crc8(SubSeq(pd, 1, Len(pd) - 1)) = pd[CRC8_OFFSET + 1]

\* the argument of split_to when the checksum matches
MatchCut(start_pos) == start_pos + PKG_SIZE

\* mutant: a mismatch drops the whole candidate window
MismatchCut_window(start_pos) == start_pos + PKG_SIZE

\* the argument of split_to when the checksum does not match
MismatchCut(start_pos) == start_pos + 1

\* mutant: the head is copied out and the buffer is not advanced
split_to_copy(src, at) ==
    [head |-> SubSeq(src, 1, at), rest |-> src]

\* mutant: the tail of the buffer is cut off instead of its front
split_to_front(src, at) ==
    [head |-> SubSeq(src, 1, at), rest |-> SubSeq(src, 1, Len(src) - at)]

\* BytesMut::split_to(at): head is returned, rest stays in the buffer
split_to(src, at) ==
    [head |-> SubSeq(src, 1, at), rest |-> SubSeq(src, at + 1, Len(src))]

\* mutant: the buffer is not cleared
ClearBuf_keep(src) == src

\* src.clear() when no start byte is found
ClearBuf(src) == << >>

\* mutant: a decoder that remembers an earlier mismatch and then gives up a
\* candidate that lacks data instead of waiting for it
decode_resync(src) ==
    LET start_pos == position(src) IN
    IF start_pos # -1
    THEN IF EnoughData(Len(src), start_pos)
         THEN IF CrcMatches(packet_data(src, start_pos))
              THEN LET s == split_to(src, MatchCut(start_pos)) IN
                   [ret |-> Some(Ld19Packet_from_bytes(s.head)), src |-> s.rest]
              ELSE [ret |-> None, src |-> split_to(src, MismatchCut(start_pos)).rest]
         ELSE IF crcAt # {}
              THEN [ret |-> None, src |-> split_to(src, MismatchCut(start_pos)).rest]
              ELSE [ret |-> None, src |-> src]
    ELSE [ret |-> None, src |-> ClearBuf(src)]

\* Ld19Codec::decode: ret is the value returned, src the buffer it leaves
decode(src) ==
    LET start_pos == position(src) IN
    IF start_pos # -1
    THEN IF EnoughData(Len(src), start_pos)
         THEN IF CrcMatches(packet_data(src, start_pos))
              THEN LET s == split_to(src, MatchCut(start_pos)) IN
                   [ret |-> Some(Ld19Packet_from_bytes(s.head)), src |-> s.rest]
              ELSE [ret |-> None, src |-> split_to(src, MismatchCut(start_pos)).rest]
         ELSE [ret |-> None, src |-> src]
    ELSE [ret |-> None, src |-> ClearBuf(src)]

\* ------------------------------------------------------------------------
\* Inputs: what the transport can deliver
\* ------------------------------------------------------------------------

\* a packet with a correct checksum and no start byte after offset 0
PacketA ==
    << 84, 44, 16, 14, 232, 3, 244, 1, 200, 254, 1, 201, 8, 2, 202, 18,
       2, 203, 28, 2, 204, 38, 2, 205, 48, 2, 206, 58, 2, 207, 68, 2,
       208, 78, 2, 209, 88, 2, 210, 98, 2, 211, 88, 7, 210, 4, 87 >>

\* a packet with a correct checksum and a byte 0x54 at offset 15
PacketB ==
    << 84, 44, 16, 14, 216, 139, 132, 3, 100, 133, 3, 101, 134, 3, 102, 84,
       0, 103, 136, 3, 104, 137, 3, 105, 138, 3, 106, 139, 3, 107, 140, 3,
       108, 141, 3, 109, 142, 3, 110, 143, 3, 111, 88, 2, 20, 5, 230 >>

\* PacketB with its checksum byte corrupted
BadB == SubSeq(PacketB, 1, PKG_SIZE - 1) \o << 25 >>

\* PacketA delivered by two reads: its first 20 bytes, then the other 27
HeadA == SubSeq(PacketA, 1, 20)

TailA == SubSeq(PacketA, 21, PKG_SIZE)

\* the chunks a read of the serial port can append: a garbage byte, a lone
\* start byte, whole packets, a corrupted packet and the two parts of a packet
Chunks == { << 255 >>, << START_BYTE >>, PacketA, PacketB, BadB, HeadA, TailA }

\* ------------------------------------------------------------------------
\* State
\* ------------------------------------------------------------------------

VARIABLES
    stream,   \* every byte the transport has delivered so far, in order
    nreads,   \* number of chunks delivered so far
    src,      \* the BytesMut buffer handed to decode
    pre,      \* src as it was before the last decode call since the last read
    base,     \* src as it was right after the last read
    rets,     \* the values returned by the decode calls since the last read,
              \* up to the first one that returned None and left src alone
    emitted,  \* the packets returned so far, with the position of their window
    first,    \* the first decode call made: the buffer it was given, the
              \* value it returned and the buffer it left (<< >> before it)
    span,     \* a byte span handed to crc8 on its own
    crc,      \* the value crc8 returned for span
    total,    \* a byte stream that two reader loops receive in different chunks
    fed,      \* fed[r]: how many bytes of total reader loop r has received
    buf,      \* buf[r]: the BytesMut buffer of reader loop r
    outp,     \* outp[r]: the packets reader loop r has emitted, with the
              \* position of their window in total
    iters,    \* iters[id]: the Ld19PointIter that iter_points returned last
              \* for the caller id, as its next calls have left it
    items,    \* items[id]: the values next has returned for iters[id]
    serial_port,   \* ViewerApp.serial_port: the selected port, "" for none
    worker_handle, \* ViewerApp.worker_handle: the worker whose JoinHandle is
                   \* held, 0 for None
    stop_signal,   \* ViewerApp.stop_signal: the worker whose stop channel
                   \* the held Sender belongs to, 0 for None
    lidar_rx,      \* ViewerApp.lidar_rx: the worker whose frame channel the
                   \* held Receiver belongs to, 0 for None
    lidar_points,  \* ViewerApp.lidar_points: for each point kept for the
                   \* plot, the worker that produced it
    stats,         \* ViewerApp.stats: the count of CRC errors, and the
                   \* workers whose frames were counted since the last reset
    pc,            \* the position of the UI thread inside update
    nworkers,      \* the number of worker tasks spawned so far
    worker,        \* worker[w]: the position of worker task w
    port,          \* port[w]: the state of the serial port of worker w
    tx,            \* tx[w]: the frames sent on the frame channel of worker
                   \* w and not yet received
    rx_stop,       \* rx_stop[w]: a stop message waits in the stop channel
                   \* of worker w
    nsent          \* nsent[w]: the number of frames worker w has sent

\* the state of the decoder and its transport
decvars == << stream, nreads, src, pre, base, rets, emitted, crcAt, first >>

\* the state of the checks of the pure functions
funvars == << span, crc >>

\* the state of the two reader loops fed the same stream
splitvars == << total, fed, buf, outp >>

\* the iterators over the points of packets
itervars == << iters, items >>

\* the viewer: its UI thread, its worker tasks and their channels
uivars == << serial_port, worker_handle, stop_signal, lidar_rx, lidar_points,
             stats, pc, nworkers, worker, port, tx, rx_stop, nsent >>

\* what the decoder on its transport leaves alone
nondec == << funvars, splitvars, itervars, uivars >>

\* what the viewer leaves alone
nonui == << decvars, funvars, splitvars, itervars >>

vars == << decvars, funvars, splitvars, itervars, uivars >>

\* stream position of the first byte of src
consumed == Len(stream) - Len(src)

\* the last decode call since the last read returned None and left src as it was
quiet == rets # << >> /\ rets[Len(rets)].kind = "None" /\ pre = src

\* the two reader loops
Runs == { 1, 2 }

\* nothing is handed to crc8 on its own
FunIdle ==
    /\ span = << >>
    /\ crc = crc8(span)

\* the two reader loops have no stream to read
SplitIdle ==
    /\ total = << >>
    /\ fed = [r \in Runs |-> 0]
    /\ buf = [r \in Runs |-> << >>]
    /\ outp = [r \in Runs |-> << >>]

\* the worker tasks that can be spawned
Workers == 1..MaxWorkers

\* LidarStats::default()
StatsDefault == [crc_errors |-> 0, from |-> {}]

\* ViewerApp::new: no port is selected and no worker has been spawned
UiIdle ==
    /\ serial_port = ""
    /\ worker_handle = 0
    /\ stop_signal = 0
    /\ lidar_rx = 0
    /\ lidar_points = << >>
    /\ stats = StatsDefault
    /\ pc = "check"
    /\ nworkers = 0
    /\ worker = [w \in Workers |-> "unborn"]
    /\ port = [w \in Workers |-> "ok"]
    /\ tx = [w \in Workers |-> << >>]
    /\ rx_stop = [w \in Workers |-> FALSE]
    /\ nsent = [w \in Workers |-> 0]

\* no iterator has been made
IterIdle ==
    /\ iters = << >>
    /\ items = << >>

\* the decoder on its transport before the first read
DecIdle ==
    /\ stream = << >>
    /\ nreads = 0
    /\ src = << >>
    /\ pre = << >>
    /\ base = << >>
    /\ rets = << >>
    /\ emitted = << >>
    /\ crcAt = {}
    /\ first = << >>

Init ==
    /\ DecIdle
    /\ FunIdle
    /\ SplitIdle
    /\ IterIdle
    /\ UiIdle

\* a read of the serial port appends chunk to the buffer
Deliver(chunk) ==
    /\ stream' = stream \o chunk
    /\ src' = src \o chunk
    /\ nreads' = nreads + 1
    /\ pre' = << >>
    /\ base' = src'
    /\ rets' = << >>
    /\ UNCHANGED << emitted, crcAt, first >>
    /\ UNCHANGED nondec

\* the framed reader reads a chunk from the serial port into the buffer
ReadChunk ==
    /\ nreads < MaxChunks
    /\ \E chunk \in Chunks : Deliver(chunk)

\* the checksum branch decode takes on src: the "crc mismatch" line is printed
Mismatch(s) ==
    /\ position(s) # -1
    /\ EnoughData(Len(s), position(s))
    /\ ~CrcMatches(packet_data(s, position(s)))

\* every index and range decode uses on buffer s lies within s, and
\* from_bytes then finds the PKG_SIZE bytes it reads: no slice, split_to or
\* unwrap panics
InBounds(s) ==
    LET start_pos == position(s) IN
    (start_pos # -1 /\ EnoughData(Len(s), start_pos))
    => /\ start_pos + PKG_SIZE <= Len(s)
       /\ CRC8_OFFSET < PKG_SIZE
       /\ MatchCut(start_pos) <= Len(s)
       /\ MatchCut(start_pos) >= PKG_SIZE
       /\ MismatchCut(start_pos) <= Len(s)

\* one call of decode on the buffer, with what the call is seen to do
DecodeCall ==
    LET r == decode(src) IN
    /\ src' = r.src
    /\ pre' = src
    /\ rets' = IF quiet THEN rets ELSE Append(rets, r.ret)
    /\ emitted' = IF r.ret.kind = "Some"
                  THEN Append(emitted, [pos |-> consumed + position(src),
                                        packet |-> r.ret.packet])
                  ELSE emitted
    /\ crcAt' = IF Mismatch(src) THEN crcAt \cup {consumed + position(src)} ELSE crcAt
    /\ UNCHANGED << stream, nreads, base >>
    /\ UNCHANGED nondec

\* one call of decode on the buffer
Decode ==
    /\ DecodeCall
    /\ UNCHANGED first

Next == ReadChunk \/ Decode

Spec == Init /\ [][Next]_vars

\* one call of decode on the buffer; the first call ever made is remembered
DecodeFirst ==
    /\ DecodeCall
    /\ first' = IF first = << >>
                THEN << [pre |-> src, ret |-> decode(src).ret, post |-> decode(src).src] >>
                ELSE first

NextFirst == ReadChunk \/ DecodeFirst

\* the decoder and its transport, with the first call remembered
SpecFirst == Init /\ [][NextFirst]_vars

\* ------------------------------------------------------------------------
\* The decoder on packets corrupted in one byte
\* ------------------------------------------------------------------------

\* the packets with a correct checksum that get corrupted
ValidPackets == { PacketA, PacketB }

\* the values a corrupted byte of value old can take
CorruptVals(old) == { xor(old, 1), xor(old, 128), START_BYTE, 0 } \ { old }

\* the bytes that follow the corrupted packet
TailBytes == { 0, START_BYTE, 255 }

\* the first read delivered a packet with one byte at offsets 1..46 changed,
\* alone or behind one garbage byte
InitCorrupt ==
    /\ \E v \in ValidPackets, off \in 1..(PKG_SIZE - 1), g \in { << >>, << 255 >> } :
          \E val \in CorruptVals(v[off + 1]) :
              stream = g \o [v EXCEPT ![off + 1] = val]
    /\ src = stream
    /\ base = stream
    /\ nreads = 1
    /\ pre = << >>
    /\ rets = << >>
    /\ emitted = << >>
    /\ crcAt = {}
    /\ first = << >>
    /\ FunIdle
    /\ SplitIdle
    /\ IterIdle
    /\ UiIdle

\* the framed reader reads one more byte from the serial port
ReadTail ==
    /\ nreads < 1 + MaxTail
    /\ \E b \in TailBytes : Deliver(<< b >>)

NextCorrupt == ReadTail \/ Decode

SpecCorrupt == InitCorrupt /\ [][NextCorrupt]_vars

\* ------------------------------------------------------------------------
\* The integrity checker on its own
\* ------------------------------------------------------------------------

\* the bytes the spans are made of
SpanBytes == { 0, 1, START_BYTE, 255 }

\* crc8 is called on the span extended by one byte
PushByte ==
    /\ Len(span) < MaxSpan
    /\ \E b \in SpanBytes : span' = Append(span, b)
    /\ crc' = crc8(span')
    /\ UNCHANGED << decvars, splitvars, itervars, uivars >>

NextCrc == PushByte

SpecCrc == Init /\ [][NextCrc]_vars

\* ------------------------------------------------------------------------
\* One stream, two reader loops that receive it in different chunks
\* ------------------------------------------------------------------------

\* the pieces a stream is made of: a garbage byte, two packets and a
\* corrupted packet
Pieces == { << 255 >>, PacketA, PacketB, BadB }

RECURSIVE Concat(_)
Concat(ss) == IF ss = << >> THEN << >> ELSE Head(ss) \o Concat(Tail(ss))

\* the streams of at most MaxPieces pieces
Streams == { Concat(ps) : ps \in UNION { [1..n -> Pieces] : n \in 1..MaxPieces } }

\* where a read of the serial port can end: right before or right after a
\* start byte, or at the end of the stream
Cuts(s) ==
    { c \in 1..Len(s) :
        \/ c = Len(s)
        \/ s[c] = START_BYTE
        \/ s[c + 1] = START_BYTE }

RECURSIVE drain(_, _, _)
\* decode is called on buffer b, whose first byte is at stream position off,
\* until a call returns no packet; the packets returned are appended to o
drain(b, o, off) ==
    LET r == decode(b) IN
    IF r.ret.kind = "Some"
    THEN drain(r.src,
               Append(o, [pos |-> off + position(b), packet |-> r.ret.packet]),
               off + Len(b) - Len(r.src))
    ELSE [buf |-> r.src, out |-> o]

InitSplit ==
    /\ DecIdle
    /\ FunIdle
    /\ total \in Streams
    /\ fed = [r \in Runs |-> 0]
    /\ buf = [r \in Runs |-> << >>]
    /\ outp = [r \in Runs |-> << >>]
    /\ IterIdle
    /\ UiIdle

\* reader loop r receives the bytes of the stream up to position c as one
\* chunk, appends them to its buffer and calls decode until it returns no
\* packet
Feed(r, c) ==
    LET b == buf[r] \o SubSeq(total, fed[r] + 1, c)
        d == drain(b, outp[r], c - Len(b))
    IN  /\ c > fed[r]
        /\ fed' = [fed EXCEPT ![r] = c]
        /\ buf' = [buf EXCEPT ![r] = d.buf]
        /\ outp' = [outp EXCEPT ![r] = d.out]
        /\ UNCHANGED << total, decvars, funvars, itervars, uivars >>

NextSplit == \E r \in Runs : \E c \in Cuts(total) : Feed(r, c)

SpecSplit == InitSplit /\ [][NextSplit]_vars

\* ------------------------------------------------------------------------
\* Consumers iterating over the points of decoded packets
\* ------------------------------------------------------------------------

\* the callers that hold an iterator
IterIds == { 1, 2 }

\* the packet decode returns for window w at the front of the buffer, once
\* the byte after the window has arrived
Decoded(w) == decode(w \o << 0 >>).ret.packet

\* the window w with the angle fields s and e and the checksum that goes
\* with them
WithAngles(w, s, e) ==
    LET b == [w EXCEPT ![5] = s % 256, ![6] = s \div 256,
                       ![43] = e % 256, ![44] = e \div 256]
    IN  [b EXCEPT ![PKG_SIZE] = crc8(SubSeq(b, 1, PKG_SIZE - 1))]

\* the values of the angle fields: both ends of the range, a quarter and a
\* half turn, one hundredth past the half turn, the last value below a full
\* turn, values of a full turn and more, and values whose hundredths are
\* not f32 numbers
AngleVals ==
    { 0, 1, 116, 290, 9000, 11196, 18000, 18001, 32468, 35999, 36000,
      40000, 65535 }

InitIter ==
    /\ DecIdle
    /\ FunIdle
    /\ SplitIdle
    /\ IterIdle
    /\ UiIdle

\* caller id calls iter_points on packet and keeps the iterator
IterPoints(id, packet) ==
    /\ iters' = [i \in DOMAIN iters \cup { id } |->
                    IF i = id THEN iter_points(packet) ELSE iters[i]]
    /\ items' = [i \in DOMAIN items \cup { id } |->
                    IF i = id THEN << >> ELSE items[i]]
    /\ UNCHANGED << decvars, funvars, splitvars, uivars >>

\* caller id calls next on its iterator
NextItem(id) ==
    /\ id \in DOMAIN iters
    /\ Len(items[id]) < POINTS + MaxExtra
    /\ LET r == next(iters[id]) IN
           /\ iters' = [iters EXCEPT ![id] = r.it]
           /\ items' = [items EXCEPT ![id] = Append(@, r.item)]
    /\ UNCHANGED << decvars, funvars, splitvars, uivars >>

NextIter ==
    \E id \in IterIds :
        \/ \E w \in ValidPackets : IterPoints(id, Decoded(w))
        \/ NextItem(id)

\* two callers iterating over decoded packets
SpecIter == InitIter /\ [][NextIter]_vars

\* one caller iterates over a packet with any angle fields
NextAngle ==
    \/ /\ iters = << >>
       /\ \E s \in AngleVals, e \in AngleVals :
              IterPoints(1, Decoded(WithAngles(PacketA, s, e)))
    \/ NextItem(1)

SpecAngle == InitIter /\ [][NextAngle]_vars

\* ------------------------------------------------------------------------
\* The viewer: UI thread, worker tasks, serial ports and channels
\* ------------------------------------------------------------------------

\* available_serial_ports()
Ports == { "ttyA", "ttyB" }

\* the frames a worker sends: the UI tells packets from CRC errors
FrameKinds == { "Packet", "CRCError" }

\* the task of worker w is over and its future, with tx and rx_stop, dropped:
\* the loop broke on a read error, it broke on the stop signal, or the task
\* panicked
Ended(w) == worker[w] \in { "broke", "stopped", "panicked" }

\* Sender::is_closed on the stop channel of worker w: its receiver is dropped
is_closed(w) == Ended(w)

\* mutant: the receiver of the first frame channel is kept and every worker
\* sends on that channel
channel_first(w) == 1

\* std::sync::mpsc::channel(): the frame channel made for worker w
channel(w) == w

\* the subsequence of s at the positions in keep
RECURSIVE Retain(_, _, _)
Retain(s, keep, i) ==
    IF i > Len(s) THEN << >>
    ELSE (IF i \in keep THEN << s[i] >> ELSE << >>) \o Retain(s, keep, i + 1)

\* "device disconnected?": the first statement of update
UiCheck ==
    /\ pc = "check"
    /\ pc' = "select"
    /\ IF stop_signal # 0 /\ is_closed(stop_signal)
       THEN /\ worker_handle' = 0
            /\ stop_signal' = 0
            /\ serial_port' = ""
       ELSE UNCHANGED << worker_handle, stop_signal, serial_port >>
    /\ UNCHANGED << lidar_rx, lidar_points, stats, nworkers, worker, port, tx,
                    rx_stop, nsent >>
    /\ UNCHANGED nonui

\* the combo box is shown and the user changes nothing
UiNoSelect ==
    /\ pc = "select"
    /\ pc' = "fetch"
    /\ UNCHANGED << serial_port, worker_handle, stop_signal, lidar_rx,
                    lidar_points, stats, nworkers, worker, port, tx, rx_stop,
                    nsent >>
    /\ UNCHANGED nonui

\* the user selects another port p: "exit the worker task"
UiSelect(p) ==
    /\ pc = "select"
    /\ p # serial_port
    /\ nworkers < MaxWorkers
    /\ worker_handle # 0 => stop_signal # 0
    /\ pc' = "spawn"
    /\ serial_port' = p
    /\ rx_stop' = IF worker_handle # 0 /\ ~Ended(stop_signal)
                  THEN [rx_stop EXCEPT ![stop_signal] = TRUE]
                  ELSE rx_stop
    /\ worker_handle' = IF worker_handle # 0 THEN 0 ELSE worker_handle
    /\ stop_signal' = IF worker_handle # 0 THEN 0 ELSE stop_signal
    /\ UNCHANGED << lidar_rx, lidar_points, stats, nworkers, worker, port, tx,
                    nsent >>
    /\ UNCHANGED nonui

\* "create a new worker", then "clear plot and reset stats"
UiSpawn ==
    LET w == nworkers + 1 IN
    /\ pc = "spawn"
    /\ pc' = "fetch"
    /\ nworkers' = w
    /\ lidar_rx' = channel(w)
    /\ tx' = IF lidar_rx # 0 /\ lidar_rx # channel(w)
             THEN [tx EXCEPT ![lidar_rx] = << >>]
             ELSE tx
    /\ stop_signal' = w
    /\ worker_handle' = w
    /\ worker' = [worker EXCEPT ![w] = "spawned"]
    /\ lidar_points' = << >>
    /\ stats' = StatsDefault
    /\ UNCHANGED << serial_port, port, rx_stop, nsent >>
    /\ UNCHANGED nonui

\* "fetch new datapoints": try_recv returns a frame, which is added to the
\* plot and the stats; the plot keeps the points that pass the filter
UiFetch ==
    /\ pc = "fetch"
    /\ lidar_rx # 0
    /\ tx[lidar_rx] # << >>
    /\ LET frame == Head(tx[lidar_rx]) IN
       /\ tx' = [tx EXCEPT ![lidar_rx] = Tail(@)]
       /\ IF frame.kind = "Packet"
          THEN /\ \E keep \in SUBSET (1..(Len(lidar_points) + 1)) :
                      lidar_points' = Retain(Append(lidar_points, frame.worker), keep, 1)
               /\ stats' = [stats EXCEPT !.from = @ \cup { frame.worker }]
          ELSE /\ lidar_points' = lidar_points
               /\ stats' = [stats EXCEPT !.crc_errors = @ + 1,
                                          !.from = @ \cup { frame.worker }]
    /\ UNCHANGED << serial_port, worker_handle, stop_signal, lidar_rx, pc,
                    nworkers, worker, port, rx_stop, nsent >>
    /\ UNCHANGED nonui

\* try_recv returns an error (no receiver, empty or disconnected channel):
\* update returns and is called again
UiFetchDone ==
    /\ pc = "fetch"
    /\ IF lidar_rx = 0 THEN TRUE ELSE tx[lidar_rx] = << >>
    /\ pc' = "check"
    /\ UNCHANGED << serial_port, worker_handle, stop_signal, lidar_rx,
                    lidar_points, stats, nworkers, worker, port, tx, rx_stop,
                    nsent >>
    /\ UNCHANGED nonui

\* the serial port of worker w fails: reads return an error from now on
PortFail(w) ==
    /\ worker[w] \in { "spawned", "running" }
    /\ port[w] = "ok"
    /\ port' = [port EXCEPT ![w] = "failed"]
    /\ UNCHANGED << serial_port, worker_handle, stop_signal, lidar_rx,
                    lidar_points, stats, pc, nworkers, worker, tx, rx_stop,
                    nsent >>
    /\ UNCHANGED nonui

\* the serial port of worker w reaches its end: the framed reader yields None
PortEnd(w) ==
    /\ worker[w] \in { "spawned", "running" }
    /\ port[w] = "ok"
    /\ port' = [port EXCEPT ![w] = "ended"]
    /\ UNCHANGED << serial_port, worker_handle, stop_signal, lidar_rx,
                    lidar_points, stats, pc, nworkers, worker, tx, rx_stop,
                    nsent >>
    /\ UNCHANGED nonui

\* worker w opens its port: expect panics when the port cannot be opened
WorkerOpen(w) ==
    /\ worker[w] = "spawned"
    /\ worker' = [worker EXCEPT ![w] = IF port[w] = "failed" THEN "panicked"
                                       ELSE "running"]
    /\ UNCHANGED << serial_port, worker_handle, stop_signal, lidar_rx,
                    lidar_points, stats, pc, nworkers, port, tx, rx_stop,
                    nsent >>
    /\ UNCHANGED nonui

\* reader.next() yields a frame of kind k and worker w sends it: unwrap
\* panics when the receiver of its frame channel is dropped
WorkerFrame(w, k) ==
    /\ worker[w] = "running"
    /\ port[w] = "ok"
    /\ nsent[w] < MaxFrames
    /\ nsent' = [nsent EXCEPT ![w] = @ + 1]
    /\ IF lidar_rx = channel(w)
       THEN /\ tx' = [tx EXCEPT ![channel(w)] = Append(@, [worker |-> w, kind |-> k])]
            /\ worker' = worker
       ELSE /\ tx' = tx
            /\ worker' = [worker EXCEPT ![w] = "panicked"]
    /\ UNCHANGED << serial_port, worker_handle, stop_signal, lidar_rx,
                    lidar_points, stats, pc, nworkers, port, rx_stop >>
    /\ UNCHANGED nonui

\* reader.next() yields an error and the loop of worker w breaks
WorkerReadErr(w) ==
    /\ worker[w] = "running"
    /\ port[w] = "failed"
    /\ worker' = [worker EXCEPT ![w] = "broke"]
    /\ UNCHANGED << serial_port, worker_handle, stop_signal, lidar_rx,
                    lidar_points, stats, pc, nworkers, port, tx, rx_stop,
                    nsent >>
    /\ UNCHANGED nonui

\* rx_stop.recv() yields the stop message and the loop of worker w breaks
WorkerStop(w) ==
    /\ worker[w] = "running"
    /\ rx_stop[w]
    /\ worker' = [worker EXCEPT ![w] = "stopped"]
    /\ rx_stop' = [rx_stop EXCEPT ![w] = FALSE]
    /\ UNCHANGED << serial_port, worker_handle, stop_signal, lidar_rx,
                    lidar_points, stats, pc, nworkers, port, tx, nsent >>
    /\ UNCHANGED nonui

\* a step of the UI thread that needs no action of the user
UiStep == UiCheck \/ UiNoSelect \/ UiSpawn \/ UiFetch \/ UiFetchDone

\* a step of worker task w
WorkerStep(w) ==
    \/ WorkerOpen(w)
    \/ \E k \in FrameKinds : WorkerFrame(w, k)
    \/ WorkerReadErr(w)
    \/ WorkerStop(w)

NextUi ==
    \/ UiStep
    \/ \E p \in Ports : UiSelect(p)
    \/ \E w \in Workers : PortFail(w) \/ PortEnd(w) \/ WorkerStep(w)

\* the viewer under any interleaving of the UI thread and the worker tasks
SpecUi == Init /\ [][NextUi]_vars

\* the viewer when the runtime keeps running every worker task that can take
\* a step and the UI keeps being updated
SpecUiFair ==
    /\ SpecUi
    /\ WF_vars(UiStep)
    /\ \A w \in Workers : WF_vars(WorkerStep(w))

\* ------------------------------------------------------------------------
\* Vocabulary of the properties
\* ------------------------------------------------------------------------

\* a decode call was made since the last read: pre is the buffer it was given,
\* src the buffer it left and lastRet the value it returned
called == rets # << >>

lastRet == rets[Len(rets)]

\* position p (0-based) holds the first 0x54 byte of s
FirstSyncAt(s, p) ==
    /\ p + 1 <= Len(s)
    /\ s[p + 1] = 84
    /\ \A j \in 1..p : s[j] # 84

\* no byte of s equals 0x54
NoSync(s) == \A j \in 1..Len(s) : s[j] # 84

\* the 47 bytes of s from position p
Window(s, p) == SubSeq(s, p + 1, p + 47)

\* the CRC-8 of the first 46 bytes of window w equals its last byte
ChecksumOk(w) == crc8(SubSeq(w, 1, 46)) = w[47]

\* s with its first n bytes removed
Drop(s, n) == SubSeq(s, n + 1, Len(s))

\* ------------------------------------------------------------------------
\* Properties of decode
\* ------------------------------------------------------------------------

\* C1: when the first 0x54 byte is at p, more than 47 bytes are available
\* from p and the checksum of the window at p matches, decode returns the
\* packet decoded from exactly that window and leaves the buffer without its
\* first p+47 bytes.
C1_PacketOfWindow ==
    \A p \in 0..Len(pre) :
        ( /\ called
          /\ FirstSyncAt(pre, p)
          /\ Len(pre) - p > 47
          /\ ChecksumOk(Window(pre, p)) )
        => /\ lastRet = Some(Ld19Packet_from_bytes(Window(pre, p)))
           /\ src = Drop(pre, p + 47)

\* C2: when the first 0x54 byte is at p, more than 47 bytes are available
\* from p and the checksum of the window at p does not match, decode returns
\* an outcome different from the one it returns for "need more data".
C2_CrcErrorReported ==
    \A p \in 0..Len(pre) :
        ( /\ called
          /\ FirstSyncAt(pre, p)
          /\ Len(pre) - p > 47
          /\ ~ChecksumOk(Window(pre, p)) )
        => lastRet # None

\* C3: when the first 0x54 byte is at p, more than 47 bytes are available
\* from p and the checksum does not match, decode leaves the buffer without
\* exactly its first p+1 bytes.
C3_MismatchDropsThroughSync ==
    \A p \in 0..Len(pre) :
        ( /\ called
          /\ FirstSyncAt(pre, p)
          /\ Len(pre) - p > 47
          /\ ~ChecksumOk(Window(pre, p)) )
        => src = Drop(pre, p + 1)

\* C3 witness: a mismatch behind one garbage byte, with bytes kept after it
C3_Witness ==
    /\ called
    /\ FirstSyncAt(pre, 1)
    /\ Len(pre) - 1 > 47
    /\ ~ChecksumOk(Window(pre, 1))
    /\ Len(src) = Len(pre) - 2
    /\ Len(src) >= 47

\* C4: a buffer of bytes different from 0x54 followed by exactly one valid
\* 47-byte packet and nothing else: one decode call returns that packet and
\* leaves the buffer empty.
C4_GarbageThenPacket ==
    \A p \in 0..Len(pre) :
        ( /\ called
          /\ FirstSyncAt(pre, p)
          /\ Len(pre) - p = 47
          /\ ChecksumOk(Window(pre, p)) )
        => /\ lastRet = Some(Ld19Packet_from_bytes(Window(pre, p)))
           /\ src = << >>

\* C5: a buffer of exactly two back-to-back valid packets A then B: the first
\* two decode calls after the read return A and then B, and the buffer is
\* empty after the second.
C5_TwoPackets ==
    ( /\ Len(base) = 94
      /\ base[1] = 84
      /\ ChecksumOk(Window(base, 0))
      /\ base[48] = 84
      /\ ChecksumOk(Window(base, 47))
      /\ Len(rets) >= 2 )
    => /\ rets[1] = Some(Ld19Packet_from_bytes(Window(base, 0)))
       /\ rets[2] = Some(Ld19Packet_from_bytes(Window(base, 47)))
       /\ (Len(rets) = 2 => src = << >>)

\* C6: a buffer with no 0x54 byte, of any length: decode returns None (need
\* more data) and leaves the buffer empty.
C6_NoSyncClears ==
    (called /\ NoSync(pre)) => (lastRet = None /\ src = << >>)

\* C6 witness: decode was given two or more bytes, none of them 0x54
C6_Witness ==
    /\ called
    /\ NoSync(pre)
    /\ Len(pre) >= 2
    /\ src = << >>

ValidAt(q) ==
    /\ q + 47 <= Len(stream)
    /\ stream[q + 1] = 84
    /\ ChecksumOk(Window(stream, q))

\* C8: after a checksum mismatch reported for the candidate at stream
\* position p, every valid packet that starts at a later position q, with
\* more than 47 bytes from q delivered, has been returned, decoded from its
\* own 47 bytes, once the decode calls have drained the buffer.
C8_LaterPacketReturned ==
    \A p \in crcAt :
        \A q \in (p + 1)..Len(stream) :
            ( /\ ValidAt(q)
              /\ Len(stream) - q > 47
              /\ quiet )
            => \E k \in 1..Len(emitted) :
                   /\ emitted[k].pos = q
                   /\ emitted[k].packet = Ld19Packet_from_bytes(Window(stream, q))

\* C9: the packets returned by decode have strictly increasing stream
\* positions of their start byte, and their 47-byte windows do not overlap.
C9_OrderedDisjoint ==
    \A i \in 1..Len(emitted) :
        \A j \in (i + 1)..Len(emitted) :
            emitted[i].pos + 47 <= emitted[j].pos

\* C9 witness: two packets were returned, the second not right behind the first
C9_Witness ==
    /\ Len(emitted) >= 2
    /\ emitted[2].pos > emitted[1].pos + 47

\* C10: with nothing appended in between, a decode call either returns None
\* and leaves the buffer as it was, or strictly shortens the buffer; and of
\* the calls made on a buffer of n bytes, at most n come before the first
\* call that returns None and leaves the buffer as it was.
C10_DrainTerminates ==
    /\ called =>
          \/ (src = pre /\ lastRet = None)
          \/ Len(src) < Len(pre)
    /\ ~quiet => Len(rets) <= Len(base)
    /\ quiet => Len(rets) <= Len(base) + 1

\* C10 witness: a drain of a mismatch, a packet and the final None
C10_Witness ==
    /\ quiet
    /\ Len(rets) >= 3
    /\ crcAt # {}
    /\ emitted # << >>
    /\ \E k \in 1..(Len(rets) - 1) : rets[k].kind = "Some"

\* C11: after any decode call the buffer is a suffix of the buffer the call
\* was given: decode only removes a prefix.
C11_SuffixOfBefore ==
    called => \E n \in 0..Len(pre) : src = Drop(pre, n)

\* C11 witness: a call removed some bytes of its buffer and kept others
C11_Witness ==
    /\ called
    /\ Len(src) > 0
    /\ Len(src) < Len(pre)
    /\ lastRet = None

RECURSIVE LeftFold(_)
LeftFold(s) ==
    IF s = << >> THEN 0
    ELSE CRC_TABLE[xor(LeftFold(SubSeq(s, 1, Len(s) - 1)), s[Len(s)]) + 1]

\* C13: crc8 of a span is the left fold of accumulator := CRC_TABLE[accumulator
\* XOR byte] from 0; it is 0 for the empty span and always within 0..255.
C13_CrcIsLeftFold ==
    /\ crc = LeftFold(span)
    /\ span = << >> => crc = 0
    /\ crc \in 0..255

\* C13 witness: crc8 was applied to a span of three different bytes
C13_Witness ==
    /\ span = << 84, 255, 1 >>
    /\ crc = CRC_TABLE[xor(CRC_TABLE[xor(CRC_TABLE[84 + 1], 255) + 1], 1) + 1]

\* the 47 bytes that the fields of a packet encode, little-endian
ToBytes(pk) ==
    << pk.header, pk.ver_len, pk.speed % 256, pk.speed \div 256,
       pk.start_angle % 256, pk.start_angle \div 256 >>
    \o [k \in 1..36 |->
           LET pt == pk.point[((k - 1) \div 3) + 1] IN
           CASE (k - 1) % 3 = 0 -> pt.distance % 256
             [] (k - 1) % 3 = 1 -> pt.distance \div 256
             [] OTHER -> pt.intensity]
    \o << pk.end_angle % 256, pk.end_angle \div 256,
          pk.timestamp % 256, pk.timestamp \div 256, pk.crc8 >>

\* C15: the packet returned for an accepted window w has the fields read from
\* w at the fixed offsets, little-endian, and re-encoding them gives w back.
C15_FieldsOfWindow ==
    \A p \in 0..Len(pre) :
        ( /\ called
          /\ FirstSyncAt(pre, p)
          /\ lastRet.kind = "Some" )
        => LET w == Window(pre, p)
               pk == lastRet.packet
           IN  /\ pk.header = w[1]
               /\ pk.ver_len = w[2]
               /\ pk.speed = w[3] + 256 * w[4]
               /\ pk.start_angle = w[5] + 256 * w[6]
               /\ \A i \in 0..11 :
                      /\ pk.point[i + 1].distance = w[7 + 3 * i] + 256 * w[8 + 3 * i]
                      /\ pk.point[i + 1].intensity = w[9 + 3 * i]
               /\ pk.end_angle = w[43] + 256 * w[44]
               /\ pk.timestamp = w[45] + 256 * w[46]
               /\ pk.crc8 = w[47]
               /\ ToBytes(pk) = w

\* C16: whatever the buffer holds, the next decode call uses only indices and
\* ranges within it and from_bytes finds its 47 bytes; the calls made returned
\* Ok(None) or Ok(Some(packet)), never an error.
C16_NoFatalOutcome ==
    /\ InBounds(src)
    /\ \A k \in 1..Len(rets) : rets[k].kind \in {"None", "Some"}

\* C16 witness: decode split off garbage and a packet and was called again on
\* a buffer holding a start byte without enough data
C16_Witness ==
    /\ called
    /\ lastRet.kind = "Some"
    /\ position(pre) > 0
    /\ position(src) # -1
    /\ Len(src) - position(src) < 47

\* window w is packet v with exactly one byte at offsets 1..46 changed
OneByteOff(w, v) ==
    \E off \in 1..46 :
        /\ w[off + 1] # v[off + 1]
        /\ \A k \in 1..47 : k # off + 1 => w[k] = v[k]

\* a is an angle of the range [0, 360)
InTurn(a) == f32_lt(a, F32_360)

\* C14 as stated: for a packet with any angle fields, delta_angle_deg() is
\* at most 180 and the first angle an iterator yields is start_angle_deg().
C14_AnyStartAngle ==
    \A id \in DOMAIN iters :
        LET packet == iters[id].packet IN
        /\ f32_le(delta_angle_deg(packet), F32_180)
        /\ Len(items[id]) >= 1 => items[id][1].angle = start_angle_deg(packet)

\* C14 amended: for a packet with any angle fields, delta_angle_deg() is at
\* most 180 and the first angle an iterator yields is start_angle_deg()
\* reduced mod 360, which is start_angle_deg() itself when start_angle is
\* below 36000 and differs from it otherwise.
C14_FirstAngleReduced ==
    \A id \in DOMAIN iters :
        LET packet == iters[id].packet IN
        /\ f32_le(delta_angle_deg(packet), F32_180)
        /\ Len(items[id]) >= 1 =>
               /\ items[id][1].angle = f32_rem_360(start_angle_deg(packet))
               /\ InTurn(items[id][1].angle)
               /\ packet.start_angle < 36000
                      <=> items[id][1].angle = start_angle_deg(packet)

\* C14 witness: the first angle has been yielded for a packet whose start
\* angle is a full turn or more and whose longer arc was folded
C14_Witness ==
    /\ 1 \in DOMAIN iters
    /\ iters[1].packet.start_angle = 40000
    /\ iters[1].packet.end_angle = 1
    /\ Len(items[1]) >= 1

\* the end angle of packet lies ahead of its start angle by at most half a
\* turn, both fields being below a full turn
AheadByHalfTurn(packet) ==
    /\ packet.start_angle < 36000
    /\ packet.end_angle < 36000
    /\ (packet.end_angle - packet.start_angle) % 36000 <= 18000

\* 2^-12 degree
F32_TOL == [m |-> 8388608, e |-> -35]

\* a and b are less than 2^-12 degree apart on the circle
Near(a, b) ==
    LET d == f32_abs_sub(a, b) IN
    f32_le(d, F32_TOL) \/ f32_le(f32_abs_sub(F32_360, d), F32_TOL)

\* the f32 value of the angle start + i * arc / 11 reduced mod 360, computed
\* from the integer fields: v counts 1/1100 of a degree
Spaced(packet, i) ==
    LET arc == (packet.end_angle - packet.start_angle) % 36000
        v == (11 * packet.start_angle + i * arc) % 396000
    IN  f32_add(f32_mul_int(v \div 11, F32_1E_2),
                f32_div_int(f32_mul_int(v % 11, F32_1E_2), 11))

\* C20 as stated: for a packet whose end angle lies ahead of its start angle
\* by at most half a turn, the 12th angle an iterator yields is
\* end_angle_deg() and each of the 12 angles lies in [0, 360).
C20_LastAngleIsEnd ==
    \A id \in DOMAIN iters :
        LET packet == iters[id].packet IN
        AheadByHalfTurn(packet) =>
            /\ Len(items[id]) >= 12 => items[id][12].angle = end_angle_deg(packet)
            /\ \A k \in 1..Len(items[id]) :
                   k <= 12 => InTurn(items[id][k].angle)

\* C20 amended: for such a packet the 12th angle is within 2^-12 degree of
\* end_angle_deg() on the circle, and so is the angle of each pair i = 0..11
\* of start + i * arc / 11 reduced mod 360; each of them lies in [0, 360).
\* The f32 operations round, so that the 12th angle need not be
\* end_angle_deg() itself.
C20_LastAngleNearEnd ==
    \A id \in DOMAIN iters :
        LET packet == iters[id].packet IN
        AheadByHalfTurn(packet) =>
            /\ Len(items[id]) >= 12 => Near(items[id][12].angle, end_angle_deg(packet))
            /\ \A k \in 1..Len(items[id]) :
                   k <= 12 => /\ InTurn(items[id][k].angle)
                              /\ Near(items[id][k].angle, Spaced(packet, k - 1))

\* C20 witness: the 12 angles have been yielded for a packet whose arc wraps
\* past 360 degrees, and the 12th is not end_angle_deg()
C20_Witness ==
    /\ 1 \in DOMAIN iters
    /\ iters[1].packet.start_angle = 32468
    /\ iters[1].packet.end_angle = 11196
    /\ Len(items[1]) >= 12
    /\ items[1][12].angle # end_angle_deg(iters[1].packet)

\* C17: an iterator has yielded the points of its packet in index order, one
\* per call of next, for its first 12 calls and None for every later call,
\* whatever any other iterator over the same or another packet has done; the
\* iterator a call of iter_points returns starts at the first point.
C17_TwelvePointsInOrder ==
    \A id \in DOMAIN iters :
        /\ iters[id].index = Len(items[id])
        /\ \A k \in 1..Len(items[id]) :
               IF k <= 12
               THEN /\ items[id][k].kind = "Some"
                    /\ items[id][k].point = iters[id].packet.point[k]
               ELSE items[id][k] = None

\* C17 witness: one iterator is exhausted and has been called twice more,
\* while an iterator over another packet is part of the way
C17_Witness ==
    /\ DOMAIN iters = IterIds
    /\ iters[1].packet # iters[2].packet
    /\ Len(items[1]) = 14
    /\ Len(items[2]) = 5
    /\ items[1][12].kind = "Some"
    /\ items[1][14] = None

\* the packets reader loop r has emitted
Packets(r) == [k \in 1..Len(outp[r]) |-> outp[r][k].packet]

\* the stream positions of the windows reader loop r has accepted
Accepted(r) == [k \in 1..Len(outp[r]) |-> outp[r][k].pos]

IsPrefix(a, b) == Len(a) <= Len(b) /\ SubSeq(b, 1, Len(a)) = a

\* C18: of two reader loops that receive the same stream in different chunks
\* and call decode after each chunk until it returns no packet, one has
\* emitted a prefix of the packets the other has emitted.
C18_PrefixUnderSplitting ==
    IsPrefix(Packets(1), Packets(2)) \/ IsPrefix(Packets(2), Packets(1))

\* the windows the two reader loops have accepted are the same up to the
\* shorter list
C18_SameWindows ==
    IsPrefix(Accepted(1), Accepted(2)) \/ IsPrefix(Accepted(2), Accepted(1))

\* C19: if the first candidate window of the stream is a valid packet with
\* exactly one byte at offsets 1..46 changed, its checksum comparison fails
\* and decode never returns a packet for it: once decode has passed the
\* window it has reported a mismatch for it.  CRC_TABLE is a permutation of
\* 0..255.
C19_OneByteCorruptionRejected ==
    /\ { CRC_TABLE[i] : i \in 1..256 } = 0..255
    /\ \A g \in 0..1 :
        \A v \in { PacketA, PacketB } :
            ( /\ FirstSyncAt(stream, g)
              /\ Len(stream) - g >= 47
              /\ ChecksumOk(v)
              /\ OneByteOff(Window(stream, g), v) )
            => /\ ~ChecksumOk(Window(stream, g))
               /\ \A k \in 1..Len(emitted) : emitted[k].pos # g
               /\ consumed > g => g \in crcAt

\* C19 witness: the last covered byte of a packet behind a garbage byte was
\* changed, and decode has dropped the window's start byte
C19_Witness ==
    /\ FirstSyncAt(stream, 1)
    /\ Len(stream) >= 49
    /\ OneByteOff(Window(stream, 1), PacketA)
    /\ stream[47] # PacketA[46]
    /\ consumed = 2
    /\ 1 \in crcAt

\* C21: outside the two steps of a port switch, every frame the UI has counted
\* since the last reset, every point it keeps for the plot and every frame
\* that waits in the channel it receives from was produced by the worker
\* spawned last, whatever the earlier workers do in between.
C21_FramesFromNewWorker ==
    pc # "spawn" =>
        /\ stats.from \subseteq { nworkers }
        /\ \A i \in 1..Len(lidar_points) : lidar_points[i] = nworkers
        /\ lidar_rx # 0 =>
               \A i \in 1..Len(tx[lidar_rx]) : tx[lidar_rx][i].worker = nworkers

\* C21 witness: the port was switched while the first worker was running,
\* the first worker then sent a frame to the dropped receiver and panicked,
\* and the UI has taken a packet of the second worker
C21_Witness ==
    /\ nworkers = 2
    /\ worker[1] = "panicked"
    /\ port[1] = "ok"
    /\ stats.from = { 2 }
    /\ lidar_points = << 2 >>

\* the UI update that holds the stop sender of an ended worker resets
\* worker_handle, stop_signal and serial_port
C22_EndedWorkerResets ==
    [][ ( /\ pc = "check"
          /\ pc' # "check"
          /\ stop_signal # 0
          /\ worker[stop_signal] \in { "broke", "stopped", "panicked" } )
        => ( worker_handle' = 0 /\ stop_signal' = 0 /\ serial_port' = "" ) ]_vars

\* a worker whose port fails does end
C22_FailureEndsWorker ==
    \A w \in Workers :
        (port[w] = "failed") ~> (worker[w] \in { "broke", "stopped", "panicked" })

\* a worker whose port fails or ends does end
C22_TransportEndsWorker ==
    \A w \in Workers :
        (port[w] # "ok") ~> (worker[w] \in { "broke", "stopped", "panicked" })

\* C22: the UI update that holds the stop sender of an ended worker resets
\* worker_handle and stop_signal to None and serial_port to the empty string,
\* and a worker whose port fails or ends does eventually end.
C22_DisconnectDetected ==
    /\ C22_EndedWorkerResets
    /\ C22_TransportEndsWorker

====
